---- MODULE Spec2Model ----
(***************************************************************************)
(* A model of class ESP32OTAPull (src/src/ESP32OTAPull.h): the manifest    *)
(* matching of CheckForOTAUpdate and the streaming flash write of          *)
(* DoOTAUpdate.  The HTTP client, the JSON parser, the Update object and   *)
(* ESP.restart() are collaborators: their results are nondeterministic     *)
(* choices, and the calls made on them are recorded in the variable trace. *)
(*                                                                         *)
(* Strings that are only tested for emptiness and equality (Board, Device, *)
(* Config) are TLA+ strings.  Version strings are compared with the        *)
(* Arduino String operators > and !=, so they are sequences of character   *)
(* codes (the digit d stands for the character 'd').                       *)
(***************************************************************************)
EXTENDS Integers, Sequences, FiniteSets, TLC

\* ---------------------------------------------------------------- bounds
\* Longest "Configurations" array of a manifest.
MaxEntries == 2
\* Largest payload, counted in scratch buffers (plus one odd byte).
MaxBuffers == 1
\* Most chunks the source hands over in one transfer.
MaxDeliveries == 2
\* Most passes of the read loop in a row that find nothing available.
MaxEmptyPolls == 2

\* ------------------------------------------------------ program constants
\* enum ActionType
DONT_DO_UPDATE == 0
UPDATE_BUT_NO_BOOT == 1
UPDATE_AND_BOOT == 2
ActionType == {DONT_DO_UPDATE, UPDATE_BUT_NO_BOOT, UPDATE_AND_BOOT}

\* enum ErrorCode
UPDATE_AVAILABLE == -3
NO_UPDATE_PROFILE_FOUND == -2
NO_UPDATE_AVAILABLE == -1
UPDATE_OK == 0
HTTP_FAILED == 1
WRITE_ERROR == 2
JSON_PROBLEM == 3
OTA_UPDATE_FAIL == 4

\* sizeof(buff)
BuffSize == 1280

\* The build-time board name and the hardware address of the device.
ARDUINO_BOARD == "esp32"
MacAddress == "mac"

\* A JSON member that is absent (or null).
Null == "null"
\* The same for a version (no string has a negative character code): an
\* absent "Version" member, and a NULL CurrentVersion pointer.
NullVersion == <<-1>>

\* http.getSize() when the response carries no Content-Length.
SizeUnknown == -1

\* No value (no call has returned yet).
None == "none"

\* ------------------------------------------------------------ input sets
\* Status values of http.GET(): success, an HTTP error, and the first of
\* the negative HTTPClient connection errors.
HttpCodes == {200, 404, -1}

\* Arguments of the setters.
BoardArgs == {ARDUINO_BOARD, "x"}
DeviceArgs == {"", "d"}
ConfigArgs == {"", "c"}

\* Version strings: "2", "20", "3".
V2 == <<2>>
V20 == <<2, 0>>
V3 == <<3>>
\* CurrentVersion arguments (a char pointer, possibly NULL).
VersionArgs == {NullVersion, V2, V20}

\* The members of one element of "Configurations", without its URL.
EntryFields ==
    [Board : {Null, ARDUINO_BOARD}, Device : {Null, MacAddress},
     Config : {Null, "c"}, Version : {NullVersion, V2, V3}]

\* Entries for every device, with or without a version; entries that give
\* one of Board, Device and Config, and a version; and an entry that gives
\* all three.
Selectors(e) == {f \in {"Board", "Device", "Config"} : e[f] # Null}
Entries ==
    {e \in EntryFields :
        \/ Selectors(e) = {}
        \/ Cardinality(Selectors(e)) = 1 /\ e.Version # NullVersion
        \/ Cardinality(Selectors(e)) = 3 /\ e.Version = V3}

\* The i-th entry of a manifest names the URL i.
WithURL(e, i) ==
    [Board |-> e.Board, Device |-> e.Device, Config |-> e.Config,
     Version |-> e.Version, URL |-> i]

Manifests ==
    UNION {{[i \in 1..n |-> WithURL(f[i], i)] : f \in [1..n -> Entries]} :
           n \in 0..MaxEntries}

\* The manifest with one entry, for every device and every version.
AnyDevice ==
    [Board |-> Null, Device |-> Null, Config |-> Null, Version |-> NullVersion]
SimpleManifest == <<WithURL(AnyDevice, 1)>>

\* A payload: the length the transport reports (size) and the number of
\* bytes the server would send if it were read to the end (body).
BodySizes == {k * BuffSize + d : k \in 0..MaxBuffers, d \in 0..1}
Payloads ==
    {p \in [size : BodySizes \cup {SizeUnknown}, body : BodySizes] :
        \/ p.size = SizeUnknown
        \/ p.size - p.body \in {-1, 0, 1}}
EmptyPayload == [size |-> 0, body |-> 0]

\* The payloads served for the URLs of a manifest: every payload for the
\* simple manifest, the empty one for the others.
PayloadsFor(manifest) ==
    IF manifest = SimpleManifest THEN Payloads ELSE {EmptyPayload}

\* Sizes of the chunks the source hands over.
ChunkSizes == {1, BuffSize, BuffSize + 1}

VARIABLES
    \* fields of the object
    Callback,            \* TRUE when a progress callback is set
    Board, Device, Config,
    CVersion,
    DowngradesAllowed,
    \* the call in progress
    pc,                  \* "idle", "ota", "stream", "finish", "returned", "restarted"
    CurrentVersion,      \* argument of CheckForOTAUpdate, NULL replaced by ""
    Action,              \* argument of CheckForOTAUpdate and DoOTAUpdate
    URL,                 \* argument of DoOTAUpdate
    entry,               \* index of the element the loop acted on, 0 if none
    totalLength, offset, \* locals of DoOTAUpdate
    emptyPolls,          \* passes of the read loop in a row, up to now, that
                         \* found nothing available
    result,              \* the value returned by CheckForOTAUpdate
    \* the collaborators
    doc,                 \* the parsed manifest: doc["Configurations"]
    connected,           \* http.connected()
    avail,               \* stream->available()
    srcLeft,             \* bytes of the body not yet handed over
    deliveries,          \* chunks handed over in this transfer
    trace                \* the calls made on the collaborators in this call

vars ==
    <<Callback, Board, Device, Config, CVersion, DowngradesAllowed, pc,
      CurrentVersion, Action, URL, entry, totalLength, offset, emptyPolls,
      result, doc, connected, avail, srcLeft, deliveries, trace>>

objectVars == <<Callback, Board, Device, Config, CVersion, DowngradesAllowed>>
frameVars ==
    <<CurrentVersion, Action, URL, entry, totalLength, offset, emptyPolls,
      result, doc>>
streamVars == <<connected, avail, srcLeft, deliveries>>

\* ------------------------------------------------------------- helpers
Min(a, b) == IF a < b THEN a ELSE b

\* The URL of the manifest (JSON_URL); the payload URLs are 1, 2, ...
JSON_URL == 0

\* One call made on a collaborator: its name and two numbers.
\*   GET url status         parse ok 0           begin ok 0
\*   read count 0           write given written  callback offset totalLength
\*   end flag 0             restart 0 0
Ev(op, a, b) == <<op, a, b>>
Flag(b) == IF b THEN 1 ELSE 0

\* What Update.write() may return for len bytes: all of them, or fewer.
WriteResults(len) == {len} \cup {w \in {0, len - 1} : w >= 0}

\* String::isEmpty(), for a string and for a version string.
isEmpty(s) == s = ""
isEmptyVersion(s) == Len(s) = 0

\* config["Board"].isNull() ? "" : (const char *)config["Board"]
FieldStr(v) == IF v = Null THEN "" ELSE v
\* The same for "Version", held as a sequence of character codes.
VersionStr(v) == IF v = NullVersion THEN <<>> ELSE v

\* String::compareTo(): strcmp() of the two buffers, as its sign.
RECURSIVE compareTo(_, _)
compareTo(a, b) ==
    IF a = <<>> /\ b = <<>> THEN 0
    ELSE IF a = <<>> THEN -1
    ELSE IF b = <<>> THEN 1
    ELSE IF Head(a) < Head(b) THEN -1
    ELSE IF Head(a) > Head(b) THEN 1
    ELSE compareTo(Tail(a), Tail(b))

\* String::operator> and String::operator!=
StrGreater(a, b) == compareTo(a, b) > 0
StrDiffers(a, b) == compareTo(a, b) # 0

\* The identity the manifest is matched against (_Board, _Device, _Config).
EffBoard == IF isEmpty(Board) THEN ARDUINO_BOARD ELSE Board
EffDevice == IF isEmpty(Device) THEN MacAddress ELSE Device
EffConfig == IF isEmpty(Config) THEN "" ELSE Config

\* A test that takes an empty _Config for a wildcard too.
ProfileMatchesAnyConfig(config) ==
    LET CBoard == FieldStr(config.Board)
        CDevice == FieldStr(config.Device)
        CConfig == FieldStr(config.Config)
    IN  /\ (isEmpty(CBoard) \/ CBoard = EffBoard)
        /\ (isEmpty(CDevice) \/ CDevice = EffDevice)
        /\ (isEmpty(CConfig) \/ isEmpty(EffConfig) \/ CConfig = EffConfig)

\* The test on Board, Device and Config of one element.
ProfileMatches(config) ==
    LET CBoard == FieldStr(config.Board)
        CDevice == FieldStr(config.Device)
        CConfig == FieldStr(config.Config)
    IN  /\ (isEmpty(CBoard) \/ CBoard = EffBoard)
        /\ (isEmpty(CDevice) \/ CDevice = EffDevice)
        /\ (isEmpty(CConfig) \/ CConfig = EffConfig)

\* A version test that passes over the version an earlier call left in
\* CVersion.
VersionQualifiesNotOnRecord(ver, cur) ==
    /\ compareTo(ver, CVersion) # 0
    /\ \/ isEmptyVersion(ver)
       \/ StrGreater(ver, cur)
       \/ (DowngradesAllowed /\ StrDiffers(ver, cur))

\* A version test that also accepts the current version (>= for >).
VersionQualifiesOrEqual(ver, cur) ==
    \/ isEmptyVersion(ver)
    \/ compareTo(ver, cur) >= 0
    \/ (DowngradesAllowed /\ StrDiffers(ver, cur))

\* The test on the version of one element.
VersionQualifies(ver, cur) ==
    \/ isEmptyVersion(ver)
    \/ StrGreater(ver, cur)
    \/ (DowngradesAllowed /\ StrDiffers(ver, cur))

\* A loop that goes on after a hit and acts on the last element that
\* qualifies.
RECURSIVE ConfigLoopLast(_, _, _, _, _)
ConfigLoopLast(configs, cur, i, cver, found) ==
    IF i > Len(configs)
    THEN [hit |-> FALSE, idx |-> 0, CVersion |-> cver, foundProfile |-> found]
    ELSE LET config == configs[i]
             ver == VersionStr(config.Version)
             hits == ProfileMatches(config) /\ VersionQualifies(ver, cur)
             rest == ConfigLoopLast(configs, cur, i + 1, ver,
                                    found \/ (ProfileMatches(config) /\ ~hits))
         IN  IF hits /\ ~rest.hit
             THEN [hit |-> TRUE, idx |-> i, CVersion |-> ver,
                   foundProfile |-> found]
             ELSE rest

\* The loop over doc["Configurations"], from element i on: hit tells whether
\* an element was acted on, idx which one, CVersion and foundProfile are the
\* values the loop leaves behind.
RECURSIVE ConfigLoop(_, _, _, _, _)
ConfigLoop(configs, cur, i, cver, found) ==
    IF i > Len(configs)
    THEN [hit |-> FALSE, idx |-> 0, CVersion |-> cver, foundProfile |-> found]
    ELSE LET config == configs[i]
             ver == VersionStr(config.Version)
         IN  IF ProfileMatches(config)
             THEN IF VersionQualifies(ver, cur)
                  THEN [hit |-> TRUE, idx |-> i, CVersion |-> ver,
                        foundProfile |-> found]
                  ELSE ConfigLoop(configs, cur, i + 1, ver, TRUE)
             ELSE ConfigLoop(configs, cur, i + 1, ver, found)

\* The two results swapped.
NoUpdateResultSwapped(foundProfile) ==
    IF foundProfile THEN NO_UPDATE_PROFILE_FOUND ELSE NO_UPDATE_AVAILABLE

\* The result when the loop ends without acting on an element.
NoUpdateResult(foundProfile) ==
    IF foundProfile THEN NO_UPDATE_AVAILABLE ELSE NO_UPDATE_PROFILE_FOUND

\* String GetVersion()
GetVersion == CVersion

\* ---------------------------------------------------------------- Init
Init ==
    /\ Callback = FALSE
    /\ Board = ARDUINO_BOARD
    /\ Device = ""
    /\ Config = ""
    /\ CVersion = <<>>
    /\ DowngradesAllowed = FALSE
    /\ pc = "idle"
    /\ CurrentVersion = <<>>
    /\ Action = UPDATE_AND_BOOT
    /\ URL = JSON_URL
    /\ entry = 0
    /\ totalLength = 0
    /\ offset = 0
    /\ emptyPolls = 0
    /\ result = None
    /\ doc = <<>>
    /\ connected = FALSE
    /\ avail = 0
    /\ srcLeft = 0
    /\ deliveries = 0
    /\ trace = <<>>

\* ------------------------------------------------------------- setters
OverrideDevice(device) ==
    /\ pc = "idle"
    /\ Device' = device
    /\ UNCHANGED <<Callback, Board, Config, CVersion, DowngradesAllowed, pc,
                   frameVars, streamVars, trace>>

OverrideBoard(board) ==
    /\ pc = "idle"
    /\ Board' = board
    /\ UNCHANGED <<Callback, Device, Config, CVersion, DowngradesAllowed, pc,
                   frameVars, streamVars, trace>>

SetConfig(config) ==
    /\ pc = "idle"
    /\ Config' = config
    /\ UNCHANGED <<Callback, Board, Device, CVersion, DowngradesAllowed, pc,
                   frameVars, streamVars, trace>>

AllowDowngrades(allow_downgrades) ==
    /\ pc = "idle"
    /\ DowngradesAllowed' = allow_downgrades
    /\ UNCHANGED <<Callback, Board, Device, Config, CVersion, pc,
                   frameVars, streamVars, trace>>

SetCallback(callback) ==
    /\ pc = "idle"
    /\ Callback' = callback
    /\ UNCHANGED <<Board, Device, Config, CVersion, DowngradesAllowed, pc,
                   frameVars, streamVars, trace>>

\* ------------------------------------------------- CheckForOTAUpdate
\* A failed fetch that always answers HTTP_FAILED.
HttpFailureFlat(httpResponseCode) == HTTP_FAILED

\* httpResponseCode > 0 ? httpResponseCode : HTTP_FAILED
HttpFailure(httpResponseCode) ==
    IF httpResponseCode > 0 THEN httpResponseCode ELSE HTTP_FAILED

\* A call that does not test the result of the parse: after a failed parse
\* the document is empty, and the loop runs over it.
CheckForOTAUpdateNoErrorTest(version, action) ==
    /\ pc = "idle"
    /\ LET cur == IF version = NullVersion THEN <<>> ELSE version
       IN
       /\ CurrentVersion' = cur
       /\ Action' = action
       /\ \E httpResponseCode \in HttpCodes, error \in BOOLEAN :
            IF httpResponseCode # 200
            THEN /\ result' = HttpFailure(httpResponseCode)
                 /\ pc' = "returned"
                 /\ trace' = <<Ev("GET", JSON_URL, httpResponseCode)>>
                 /\ UNCHANGED <<CVersion, URL, entry, doc>>
            ELSE \E manifest \in IF error THEN {<<>>} ELSE Manifests :
                 LET r == ConfigLoop(manifest, cur, 1, CVersion, FALSE)
                 IN  /\ doc' = manifest
                     /\ entry' = r.idx
                     /\ CVersion' = r.CVersion
                     /\ trace' = <<Ev("GET", JSON_URL, 200),
                                   Ev("parse", Flag(~error), 0)>>
                     /\ IF r.hit
                        THEN IF action = DONT_DO_UPDATE
                             THEN /\ result' = UPDATE_AVAILABLE
                                  /\ pc' = "returned"
                                  /\ UNCHANGED URL
                             ELSE /\ URL' = manifest[r.idx].URL
                                  /\ pc' = "ota"
                                  /\ UNCHANGED result
                        ELSE /\ result' = NoUpdateResult(r.foundProfile)
                             /\ pc' = "returned"
                             /\ UNCHANGED URL
    /\ UNCHANGED <<Callback, Board, Device, Config, DowngradesAllowed,
                   totalLength, offset, emptyPolls, streamVars>>

\* The whole of CheckForOTAUpdate up to its return or its call of
\* DoOTAUpdate: the GET of the manifest, the parse, the loop.
CheckForOTAUpdate(version, action) ==
    /\ pc = "idle"
    /\ LET cur == IF version = NullVersion THEN <<>> ELSE version
       IN
       /\ CurrentVersion' = cur
       /\ Action' = action
       /\ \E httpResponseCode \in HttpCodes, error \in BOOLEAN :
            IF httpResponseCode # 200
            THEN /\ result' = HttpFailure(httpResponseCode)
                 /\ pc' = "returned"
                 /\ trace' = <<Ev("GET", JSON_URL, httpResponseCode)>>
                 /\ UNCHANGED <<CVersion, URL, entry, doc>>
            ELSE IF error
            THEN /\ result' = JSON_PROBLEM
                 /\ pc' = "returned"
                 /\ trace' = <<Ev("GET", JSON_URL, 200), Ev("parse", 0, 0)>>
                 /\ UNCHANGED <<CVersion, URL, entry, doc>>
            ELSE \E manifest \in Manifests :
                 LET r == ConfigLoop(manifest, cur, 1, CVersion, FALSE)
                 IN  /\ doc' = manifest
                     /\ entry' = r.idx
                     /\ CVersion' = r.CVersion
                     /\ trace' = <<Ev("GET", JSON_URL, 200), Ev("parse", 1, 0)>>
                     /\ IF r.hit
                        THEN IF action = DONT_DO_UPDATE
                             THEN /\ result' = UPDATE_AVAILABLE
                                  /\ pc' = "returned"
                                  /\ UNCHANGED URL
                             ELSE /\ URL' = manifest[r.idx].URL
                                  /\ pc' = "ota"
                                  /\ UNCHANGED result
                        ELSE /\ result' = NoUpdateResult(r.foundProfile)
                             /\ pc' = "returned"
                             /\ UNCHANGED URL
    /\ UNCHANGED <<Callback, Board, Device, Config, DowngradesAllowed,
                   totalLength, offset, emptyPolls, streamVars>>

\* ------------------------------------------------------- DoOTAUpdate
\* A start that does not test the result of Update.begin().
DoOTAUpdate_BeginUnchecked ==
    /\ pc = "ota"
    /\ \E httpResponseCode \in HttpCodes, begun \in BOOLEAN,
          payload \in PayloadsFor(doc) :
         IF httpResponseCode # 200
         THEN /\ result' = httpResponseCode
              /\ pc' = "returned"
              /\ trace' = Append(trace, Ev("GET", URL, httpResponseCode))
              /\ UNCHANGED <<totalLength, offset, emptyPolls, streamVars>>
         ELSE /\ totalLength' = payload.size
              /\ offset' = 0
              /\ emptyPolls' = 0
              /\ pc' = "stream"
              /\ trace' = trace \o <<Ev("GET", URL, 200),
                                      Ev("begin", Flag(begun), 0)>>
              /\ connected' = TRUE
              /\ avail' = 0
              /\ srcLeft' = payload.body
              /\ deliveries' = 0
              /\ UNCHANGED result
    /\ UNCHANGED <<objectVars, CurrentVersion, Action, URL, entry, doc>>

\* From the GET of the payload to the start of the read loop.
DoOTAUpdate_Begin ==
    /\ pc = "ota"
    /\ \E httpResponseCode \in HttpCodes, begun \in BOOLEAN,
          payload \in PayloadsFor(doc) :
         IF httpResponseCode # 200
         THEN /\ result' = httpResponseCode
              /\ pc' = "returned"
              /\ trace' = Append(trace, Ev("GET", URL, httpResponseCode))
              /\ UNCHANGED <<totalLength, offset, emptyPolls, streamVars>>
         ELSE /\ totalLength' = payload.size
              /\ IF ~begun
                 THEN /\ result' = OTA_UPDATE_FAIL
                      /\ pc' = "returned"
                      /\ trace' = trace \o <<Ev("GET", URL, 200), Ev("begin", 0, 0)>>
                      /\ UNCHANGED <<offset, emptyPolls, streamVars>>
                 ELSE /\ offset' = 0
                      /\ emptyPolls' = 0
                      /\ pc' = "stream"
                      /\ trace' = trace \o <<Ev("GET", URL, 200), Ev("begin", 1, 0)>>
                      /\ connected' = TRUE
                      /\ avail' = 0
                      /\ srcLeft' = payload.body
                      /\ deliveries' = 0
                      /\ UNCHANGED result
    /\ UNCHANGED <<objectVars, CurrentVersion, Action, URL, entry, doc>>

\* A loop that goes on after the connection is lost.
LoopConditionLengthOnly == offset < totalLength

\* The condition of the read loop.
LoopCondition == connected /\ offset < totalLength

\* A read of everything available, whatever the size of the buffer.
BytesToReadAll(sizeAvail) == sizeAvail

\* min(sizeAvail, sizeof(buff))
BytesToRead(sizeAvail) == Min(sizeAvail, BuffSize)

\* A test that takes only a write of nothing for a failure.
ShortWriteZeroOnly(bytes_read, bytes_written) == bytes_written = 0

\* The test that leaves the loop by break.
ShortWrite(bytes_read, bytes_written) == bytes_read # bytes_written

\* A callback with its two arguments in the wrong order.
ProgressSwapped(off, total) ==
    IF Callback THEN <<Ev("callback", total, off)>> ELSE <<>>

\* if (Callback != NULL) Callback(offset, totalLength)
Progress(off, total) ==
    IF Callback THEN <<Ev("callback", off, total)>> ELSE <<>>

\* A test that takes a transfer that stopped short for complete.
TransferCompleteLoose == offset <= totalLength

\* The test for a complete transfer after the loop.
TransferComplete == offset = totalLength

\* A test against the wrong action.
NoBootWrongAction(action) == action = DONT_DO_UPDATE

\* The test that returns UPDATE_OK instead of restarting.
NoBoot(action) == action = UPDATE_BUT_NO_BOOT

\* One pass of the read loop.  readBytes() is asked for no more than
\* available() reported, so it returns the count it was asked for; a pass
\* that finds nothing available goes straight back to the loop condition;
\* such passes are counted up to MaxEmptyPolls, and more of them change
\* nothing.
DoOTAUpdate_Loop ==
    /\ pc = "stream"
    /\ LoopCondition
    /\ avail = 0 => emptyPolls < MaxEmptyPolls
    /\ LET sizeAvail == avail
           bytes_to_read == BytesToRead(sizeAvail)
           bytes_read == bytes_to_read
       IN  IF sizeAvail > 0
           THEN /\ avail' = avail - bytes_read
                /\ emptyPolls' = 0
                /\ \E bytes_written \in WriteResults(bytes_read) :
                     IF ShortWrite(bytes_read, bytes_written)
                     THEN /\ pc' = "finish"
                          /\ trace' = trace \o <<Ev("read", bytes_read, 0),
                                                 Ev("write", bytes_read, bytes_written)>>
                          /\ UNCHANGED offset
                     ELSE /\ offset' = offset + bytes_written
                          /\ pc' = "stream"
                          /\ trace' = trace
                                \o <<Ev("read", bytes_read, 0),
                                     Ev("write", bytes_read, bytes_written)>>
                                \o Progress(offset', totalLength)
           ELSE /\ emptyPolls' = emptyPolls + 1
                /\ UNCHANGED <<avail, pc, trace, offset>>
    /\ UNCHANGED <<objectVars, CurrentVersion, Action, URL, entry, totalLength,
                   result, doc, connected, srcLeft, deliveries>>

\* After the read loop, left by its condition or by break.  ESP.restart()
\* does not return: "restarted" is a final state.
DoOTAUpdate_End ==
    /\ \/ pc = "finish"
       \/ pc = "stream" /\ ~LoopCondition
    /\ IF TransferComplete
       THEN IF NoBoot(Action)
            THEN /\ trace' = Append(trace, Ev("end", 1, 0))
                 /\ result' = UPDATE_OK
                 /\ pc' = "returned"
            ELSE /\ trace' = trace \o <<Ev("end", 1, 0), Ev("restart", 0, 0)>>
                 /\ pc' = "restarted"
                 /\ UNCHANGED result
       ELSE /\ pc' = "returned"
            /\ result' = WRITE_ERROR
            /\ UNCHANGED trace
    /\ emptyPolls' = 0
    /\ UNCHANGED <<objectVars, CurrentVersion, Action, URL, entry, totalLength,
                   offset, doc, streamVars>>

\* ------------------------------------------------------- the source
\* The source hands over the next n bytes of the body.
Deliver(n) ==
    /\ pc = "stream"
    /\ connected
    /\ deliveries < MaxDeliveries
    /\ n > 0
    /\ n <= srcLeft
    /\ avail' = avail + n
    /\ srcLeft' = srcLeft - n
    /\ deliveries' = deliveries + 1
    /\ UNCHANGED <<objectVars, pc, frameVars, connected, trace>>

\* The source closes the connection, at any time, also with bytes still
\* to be read.
Disconnect ==
    /\ pc = "stream"
    /\ connected
    /\ connected' = FALSE
    /\ UNCHANGED <<objectVars, pc, frameVars, avail, srcLeft, deliveries, trace>>

\* The caller goes on after the call has returned.
Resume ==
    /\ pc = "returned"
    /\ pc' = "idle"
    /\ result' = None
    /\ trace' = <<>>
    /\ CurrentVersion' = <<>>
    /\ Action' = UPDATE_AND_BOOT
    /\ URL' = JSON_URL
    /\ entry' = 0
    /\ doc' = <<>>
    /\ totalLength' = 0
    /\ offset' = 0
    /\ emptyPolls' = 0
    /\ connected' = FALSE
    /\ avail' = 0
    /\ srcLeft' = 0
    /\ deliveries' = 0
    /\ UNCHANGED objectVars

Next ==
    \/ \E device \in DeviceArgs : OverrideDevice(device)
    \/ \E board \in BoardArgs : OverrideBoard(board)
    \/ \E config \in ConfigArgs : SetConfig(config)
    \/ \E allow \in BOOLEAN : AllowDowngrades(allow)
    \/ \E callback \in BOOLEAN : SetCallback(callback)
    \/ \E version \in VersionArgs, action \in ActionType :
          CheckForOTAUpdate(version, action)
    \/ DoOTAUpdate_Begin
    \/ DoOTAUpdate_Loop
    \/ DoOTAUpdate_End
    \/ \E n \in ChunkSizes \cup {srcLeft} : Deliver(n)
    \/ Disconnect
    \/ Resume

Spec == Init /\ [][Next]_vars

\* ------------------------------------------------------------ fairness
\* While the loop is waiting (connected, offset < totalLength) the source
\* hands over a chunk or closes the connection.
SourceActs ==
    /\ LoopCondition
    /\ \/ \E n \in ChunkSizes \cup {srcLeft} : Deliver(n)
       \/ Disconnect

\* DoOTAUpdate runs on: a pass of the loop that can be made is made, and
\* the statements after the loop are executed; the source does not leave
\* the loop waiting for ever.
Fairness ==
    /\ WF_vars(DoOTAUpdate_Loop)
    /\ WF_vars(DoOTAUpdate_End)
    /\ WF_vars(SourceActs)

FairSpec == Init /\ [][Next]_vars /\ Fairness

\* ===================================================== the claims
\* The manifest was fetched and parsed in the call in progress.
Parsed == Len(trace) >= 2 /\ trace[2] = Ev("parse", 1, 0)

\* A field of an entry is empty or equal to the device's own value.
SpecFieldOk(field, own) == field = Null \/ field = "" \/ field = own

\* The entry matches the device on Board, Device and Config.
SpecMatches(e) ==
    /\ SpecFieldOk(e.Board, EffBoard)
    /\ SpecFieldOk(e.Device, EffDevice)
    /\ SpecFieldOk(e.Config, EffConfig)

\* a is greater than b in lexicographic order: they agree before some
\* position k, where b has ended or has the smaller character.
LexGreater(a, b) ==
    \E k \in 1..Len(a) :
        /\ \A j \in 1..(k - 1) : j <= Len(b) /\ a[j] = b[j]
        /\ (k > Len(b) \/ a[k] > b[k])

SpecVersion(e) == IF e.Version = NullVersion THEN <<>> ELSE e.Version

\* The entry qualifies by version.
SpecQualifies(e) ==
    LET v == SpecVersion(e)
    IN  \/ v = <<>>
        \/ LexGreater(v, CurrentVersion)
        \/ (DowngradesAllowed /\ v # CurrentVersion)

\* The entries of the manifest that match and qualify.
Triggering == {i \in 1..Len(doc) : SpecMatches(doc[i]) /\ SpecQualifies(doc[i])}

\* The call answered UPDATE_AVAILABLE or called DoOTAUpdate.
Triggered ==
    \/ pc = "returned" /\ Action = DONT_DO_UPDATE /\ result = UPDATE_AVAILABLE
    \/ URL # JSON_URL

\* C1: an entry of the manifest triggers an update (UPDATE_AVAILABLE or the
\* call of DoOTAUpdate) if and only if its Board, Device and Config are each
\* empty or equal to the device's, and its Version is empty, or
\* lexicographically greater than the current version, or different from it
\* with downgrades allowed: the entry acted on is such an entry, no entry
\* passed over is one, and an update is triggered exactly when one exists.
\* A non-empty Version that is lexicographically <= the current version
\* never triggers when downgrades are disallowed.
C1_TriggerIffMatchAndQualify ==
    Parsed =>
        /\ Triggered <=> entry # 0
        /\ Triggered <=> Triggering # {}
        /\ entry # 0 => entry \in Triggering
        /\ \A i \in 1..Len(doc) : (entry = 0 \/ i < entry) => i \notin Triggering
        /\ (entry # 0 /\ ~DowngradesAllowed /\ SpecVersion(doc[entry]) # <<>>) =>
              /\ SpecVersion(doc[entry]) # CurrentVersion
              /\ ~LexGreater(CurrentVersion, SpecVersion(doc[entry]))

\* The second entry, version "3" for this board, triggers against the
\* current version "20"; the first, a match with version "2", did not.
C1_Witness ==
    /\ pc = "returned"
    /\ result = UPDATE_AVAILABLE
    /\ ~DowngradesAllowed
    /\ CurrentVersion = V20
    /\ entry = 2
    /\ doc[2].Version = V3
    /\ doc[2].Board = ARDUINO_BOARD
    /\ doc[1].Version = V2
    /\ SpecMatches(doc[1])

\* C2: when some entry matches and qualifies, the entry acted on is the
\* first of them in document order; the URL passed to DoOTAUpdate and
\* fetched is that entry's URL, and GetVersion returns that entry's Version,
\* also when nothing is installed.
C2_FirstMatchWins ==
    (Parsed /\ Triggering # {}) =>
        /\ entry \in Triggering
        /\ \A i \in Triggering : entry <= i
        /\ GetVersion = SpecVersion(doc[entry])
        /\ Action # DONT_DO_UPDATE => URL = doc[entry].URL
        /\ \A k \in 2..Len(trace) :
              trace[k][1] = "GET" => trace[k][2] = doc[entry].URL

\* Decision only: the first entry, version "2", is reported although the
\* second entry qualifies too, with the higher version "3".
C2_Witness ==
    /\ pc = "returned"
    /\ Action = DONT_DO_UPDATE
    /\ result = UPDATE_AVAILABLE
    /\ Len(doc) = 2
    /\ entry = 1
    /\ doc[1].Version = V2
    /\ doc[2].Version = V3
    /\ 2 \in Triggering
    /\ GetVersion = V2

\* C3: when no entry qualifies, the call returns NO_UPDATE_AVAILABLE if some
\* entry matched the device on Board, Device and Config, and
\* NO_UPDATE_PROFILE_FOUND otherwise, as for an empty list.
C3_NoUpdateResult ==
    (Parsed /\ Triggering = {}) =>
        /\ pc = "returned"
        /\ result = IF \E i \in 1..Len(doc) : SpecMatches(doc[i])
                    THEN NO_UPDATE_AVAILABLE
                    ELSE NO_UPDATE_PROFILE_FOUND
        /\ doc = <<>> => result = NO_UPDATE_PROFILE_FOUND

\* The first entry is for another board, the second matches without
\* qualifying.
C3_Witness ==
    /\ pc = "returned"
    /\ Parsed
    /\ result = NO_UPDATE_AVAILABLE
    /\ Len(doc) = 2
    /\ ~SpecMatches(doc[1])
    /\ SpecMatches(doc[2])
    /\ doc[2].Version # NullVersion

\* ------------------------------------------- the transfer, from trace
OpAt(k) == trace[k][1]
Happened(op, a, b) == \E k \in 1..Len(trace) : trace[k] = Ev(op, a, b)
Positions(op) == {k \in 1..Len(trace) : OpAt(k) = op}

\* Update.begin() succeeded in this call.
Begun == Happened("begin", 1, 0)
\* Update.end(true) was called in this call.
Committed == Happened("end", 1, 0)
\* The call is over: it returned or restarted the device.
Over == pc \in {"returned", "restarted"}

\* The write at position k was given more bytes than it reports written.
ShortWriteAt(k) == OpAt(k) = "write" /\ trace[k][3] < trace[k][2]
SomeShortWrite == \E k \in 1..Len(trace) : ShortWriteAt(k)

\* The bytes given to the writes of t, and the bytes they report written.
RECURSIVE SumGiven(_)
SumGiven(t) ==
    IF t = <<>> THEN 0
    ELSE (IF Head(t)[1] = "write" THEN Head(t)[2] ELSE 0) + SumGiven(Tail(t))
RECURSIVE SumWritten(_)
SumWritten(t) ==
    IF t = <<>> THEN 0
    ELSE (IF Head(t)[1] = "write" THEN Head(t)[3] ELSE 0) + SumWritten(Tail(t))

\* The source was lost before the known total length was reached.
DisconnectedEarly == Begun /\ ~connected /\ offset < totalLength

\* C4: the restart happens only as the last step, right after
\* Update.end(true), with the bytes written equal to the total length;
\* after a short write or a disconnect before the total length, the call
\* returns WRITE_ERROR and neither Update.end(true) nor the restart happens.
C4_RestartOnlyAfterCommit ==
    /\ pc = "restarted" <=> Positions("restart") # {}
    /\ \A k \in Positions("restart") :
          /\ k = Len(trace)
          /\ k > 1
          /\ trace[k - 1] = Ev("end", 1, 0)
    /\ Committed =>
          /\ SumWritten(trace) = totalLength
          /\ offset = totalLength
          /\ ~SomeShortWrite
    /\ (Over /\ (SomeShortWrite \/ DisconnectedEarly)) =>
          /\ pc = "returned"
          /\ result = WRITE_ERROR
          /\ Positions("end") = {}
          /\ Positions("restart") = {}

\* A payload of one buffer and one byte was written in two writes,
\* committed, and the device restarted.
C4_Witness ==
    /\ pc = "restarted"
    /\ Action = UPDATE_AND_BOOT
    /\ totalLength = BuffSize + 1
    /\ Cardinality(Positions("write")) = 2

\* C5: on every exit of a transfer whose Update.begin() succeeded the commit
\* is called exactly once, with true on success and with false after a
\* short write or an early disconnect; it is never called when
\* Update.begin() did not succeed.  (Stated for a known total length, the
\* case the claim spells out.)
C5_CommitOncePerBegin ==
    /\ (Over /\ Begun /\ totalLength >= 0) =>
          /\ Cardinality(Positions("end")) = 1
          /\ (SomeShortWrite \/ DisconnectedEarly) => Happened("end", 0, 0)
          /\ (~SomeShortWrite /\ offset = totalLength) => Committed
    /\ ~Begun => Positions("end") = {}

\* C6: with an unknown total length the transfer runs until the source
\* disconnects and is then committed as a success with the bytes written
\* so far.
C6_UnknownLengthCommitted ==
    (Over /\ Begun /\ totalLength = SizeUnknown /\ ~SomeShortWrite) =>
        /\ Committed
        /\ result # WRITE_ERROR

\* The bytes of the body: those still to come, those available and those
\* already read.
BodySize == srcLeft + avail + SumGiven(trace)

\* C7: every write is given exactly the bytes of the read before it, at
\* most a buffer of them; when the payload has the known length N, the
\* source stays connected and every write is accepted in full, the bytes
\* given to the writes add up to N.
C7_WritesCarryWhatWasRead ==
    /\ \A k \in Positions("write") :
          /\ k > 1
          /\ trace[k - 1] = Ev("read", trace[k][2], 0)
          /\ trace[k][2] <= BuffSize
    /\ \A k \in Positions("read") :
          k < Len(trace) /\ OpAt(k + 1) = "write"
    /\ (Over /\ Begun /\ connected /\ ~SomeShortWrite
             /\ totalLength >= 0 /\ BodySize = totalLength) =>
          SumGiven(trace) = totalLength

\* One chunk of a buffer and a byte went through as two writes.
C7_Witness ==
    /\ Over
    /\ connected
    /\ deliveries = 1
    /\ totalLength = BuffSize + 1
    /\ Happened("read", BuffSize, 0)
    /\ Happened("read", 1, 0)
    /\ SumGiven(trace) = BuffSize + 1
    /\ Committed

\* C8: with a callback set, it is called after every write accepted in
\* full and only then, with the bytes written so far and the total length;
\* the values of successive calls increase strictly, and after a
\* successful transfer the last one is the total length (no call at all for
\* an empty payload).  Without a callback nothing is called.
C8_ProgressAfterEveryWrite ==
    /\ ~Callback => Positions("callback") = {}
    /\ Callback =>
          /\ \A k \in Positions("callback") :
                /\ k > 1
                /\ OpAt(k - 1) = "write"
                /\ ~ShortWriteAt(k - 1)
                /\ trace[k][2] = SumWritten(SubSeq(trace, 1, k))
                /\ trace[k][3] = totalLength
          /\ \A k \in Positions("write") :
                ~ShortWriteAt(k) => (k < Len(trace) /\ OpAt(k + 1) = "callback")
          /\ \A j, k \in Positions("callback") :
                j < k => trace[j][2] < trace[k][2]
          /\ Committed =>
                IF totalLength = 0
                THEN Positions("callback") = {}
                ELSE \E k \in Positions("callback") :
                        /\ trace[k][2] = totalLength
                        /\ \A j \in Positions("callback") : j <= k

\* A transfer of a buffer and a byte reported progress twice.
C8_Witness ==
    /\ Callback
    /\ Committed
    /\ Happened("callback", BuffSize, BuffSize + 1)
    /\ Happened("callback", BuffSize + 1, BuffSize + 1)

\* C9: a write that reports fewer bytes than it was given is the last call
\* of the transfer: no read, write or callback follows it, nothing is
\* committed, and the call returns WRITE_ERROR.
C9_ShortWriteEndsLoop ==
    \A k \in 1..Len(trace) :
        ShortWriteAt(k) =>
            /\ k = Len(trace)
            /\ pc \in {"finish", "returned"}
            /\ pc = "returned" => result = WRITE_ERROR

\* The second write of a transfer fell short while the source was still
\* connected and had more to send.
C9_Witness ==
    /\ pc = "returned"
    /\ result = WRITE_ERROR
    /\ Len(trace) > 0
    /\ ShortWriteAt(Len(trace))
    /\ offset > 0
    /\ connected
    /\ srcLeft > 0

\* C10: with DONT_DO_UPDATE an entry that qualifies gives UPDATE_AVAILABLE
\* and nothing but the manifest is fetched: no payload GET, no begin, write
\* or commit, no restart.  With UPDATE_BUT_NO_BOOT a committed transfer
\* returns UPDATE_OK and never restarts.  A restart needs UPDATE_AND_BOOT.
C10_ActionHonoured ==
    /\ Action = DONT_DO_UPDATE =>
          /\ pc \in {"idle", "returned"}
          /\ \A k \in 1..Len(trace) :
                trace[k][1] = "parse" \/ (trace[k][1] = "GET" /\ trace[k][2] = JSON_URL)
          /\ (Parsed /\ Triggering # {}) => result = UPDATE_AVAILABLE
    /\ Action = UPDATE_BUT_NO_BOOT =>
          /\ pc # "restarted"
          /\ Positions("restart") = {}
          /\ Committed => (pc = "returned" /\ result = UPDATE_OK)
    /\ (pc = "restarted" \/ Positions("restart") # {}) => Action = UPDATE_AND_BOOT

\* A payload was written and committed with UPDATE_BUT_NO_BOOT and the call
\* returned UPDATE_OK.
C10_Witness ==
    /\ pc = "returned"
    /\ Action = UPDATE_BUT_NO_BOOT
    /\ result = UPDATE_OK
    /\ totalLength > 0
    /\ Committed

\* ------------------------------------------------- fetches that fail
\* The last call made was a GET that did not answer 200: its URL and its
\* status.
FetchFailed ==
    /\ Len(trace) > 0
    /\ OpAt(Len(trace)) = "GET"
    /\ trace[Len(trace)][3] # 200
FailedURL == trace[Len(trace)][2]
FailedStatus == trace[Len(trace)][3]

\* Nothing was asked of the Update object and the device was not restarted.
StorageUntouched ==
    \A k \in 1..Len(trace) : OpAt(k) \in {"GET", "parse"}

\* No URL was fetched twice.
NoRetry ==
    \A j, k \in Positions("GET") : trace[j][2] = trace[k][2] => j = k

\* C11 as stated: every status other than 200, of the manifest fetch and of
\* the payload fetch, is the value the call returns, the request is not
\* repeated, nothing is begun, written or committed and the device is not
\* restarted.
C11_StatusVerbatim ==
    FetchFailed =>
        /\ pc = "returned"
        /\ result = FailedStatus
        /\ NoRetry
        /\ StorageUntouched

\* C11 as the code has it: a positive status other than 200 is returned
\* as it is, from either fetch; a status that is not positive is returned
\* as HTTP_FAILED from the manifest fetch and as it is from the payload
\* fetch.  In every case the request is not repeated, nothing is begun,
\* written or committed and the device is not restarted.
C11_StatusSurfaced ==
    FetchFailed =>
        /\ pc = "returned"
        /\ FailedStatus > 0 => result = FailedStatus
        /\ (FailedStatus <= 0 /\ FailedURL = JSON_URL) => result = HTTP_FAILED
        /\ (FailedStatus <= 0 /\ FailedURL # JSON_URL) => result = FailedStatus
        /\ NoRetry
        /\ StorageUntouched

\* The payload of the second entry was asked for with UPDATE_AND_BOOT and
\* the server answered 404.
C11_Witness ==
    /\ pc = "returned"
    /\ Action = UPDATE_AND_BOOT
    /\ entry = 2
    /\ trace = <<Ev("GET", JSON_URL, 200), Ev("parse", 1, 0), Ev("GET", 2, 404)>>
    /\ result = 404

\* ------------------------------------------------- a manifest in error
ParseFailed == Happened("parse", 0, 0)

\* C12: the step in which the parse of the manifest fails ends the call
\* with JSON_PROBLEM; no element is looked at (no version is recorded, no
\* entry acted on), no payload is fetched, nothing is begun, written or
\* committed and the device is not restarted.
C12_ParseFailureEndsCall ==
    [][(ParseFailed' /\ ~ParseFailed) =>
          /\ pc' = "returned"
          /\ result' = JSON_PROBLEM
          /\ trace' = <<Ev("GET", JSON_URL, 200), Ev("parse", 0, 0)>>
          /\ entry' = 0
          /\ URL' = JSON_URL
          /\ GetVersion' = GetVersion
          /\ UNCHANGED <<totalLength, offset, streamVars>>]_vars

\* A call with UPDATE_AND_BOOT returned JSON_PROBLEM on an object that has
\* the version "3" on record from an earlier call.
C12_Witness ==
    /\ pc = "returned"
    /\ ParseFailed
    /\ Action = UPDATE_AND_BOOT
    /\ result = JSON_PROBLEM
    /\ GetVersion = V3

\* ------------------------------------------------- the config tag
\* Board and Device of the entry are each empty or the device's.
BoardAndDeviceMatch(e) ==
    /\ SpecFieldOk(e.Board, EffBoard)
    /\ SpecFieldOk(e.Device, EffDevice)

\* The Config of the entry is absent or empty.
NoConfig(e) == e.Config = Null \/ e.Config = ""

\* The call returned without triggering an update.
Declined == pc = "returned" /\ Parsed /\ ~Triggered

\* C13 as stated: for a device whose Config is empty, the entries that
\* match are those whose Board and Device match, whatever their Config:
\* an update is triggered exactly when one of them qualifies, and
\* otherwise the call answers NO_UPDATE_AVAILABLE exactly when there is one.
C13_EmptyTagIsWildcard ==
    (Parsed /\ isEmpty(Config)) =>
        LET Match == {i \in 1..Len(doc) : BoardAndDeviceMatch(doc[i])}
        IN  /\ Triggered <=> \E i \in Match : SpecQualifies(doc[i])
            /\ Declined => (result = NO_UPDATE_AVAILABLE <=> Match # {})

\* C13 as the code has it: for a device whose Config is empty, the entries
\* that match are those whose Board and Device match and whose own Config
\* is absent or empty; an entry that names a Config is not a match.
C13_EmptyTagMatchesNoTag ==
    (Parsed /\ isEmpty(Config)) =>
        LET Match == {i \in 1..Len(doc) :
                         BoardAndDeviceMatch(doc[i]) /\ NoConfig(doc[i])}
        IN  /\ Triggered <=> \E i \in Match : SpecQualifies(doc[i])
            /\ entry # 0 => entry \in Match
            /\ Declined => (result = NO_UPDATE_AVAILABLE <=> Match # {})

\* The only entry is for every board and device, names the Config "c" and
\* a version that qualifies: the device without a Config finds no profile.
C13_Witness ==
    /\ pc = "returned"
    /\ Parsed
    /\ isEmpty(Config)
    /\ Len(doc) = 1
    /\ doc[1].Config = "c"
    /\ BoardAndDeviceMatch(doc[1])
    /\ SpecQualifies(doc[1])
    /\ result = NO_UPDATE_PROFILE_FOUND

\* ------------------------------------------------- the version on record
\* C14: a call that returns NO_UPDATE_PROFILE_FOUND or NO_UPDATE_AVAILABLE
\* leaves GetVersion as it was before the call, and a call that acts on an
\* entry leaves the version of that entry: never that of an entry passed
\* over.
C14_VersionOfSelectedEntryOnly ==
    [][(pc = "idle" /\ Parsed') =>
          IF entry' = 0
          THEN GetVersion' = GetVersion
          ELSE GetVersion' = SpecVersion(doc'[entry'])]_vars

\* ------------------------------------------------- the same call again
\* The result of a decision-only call whose loop ended as r.
Decision(r) ==
    IF r.hit THEN UPDATE_AVAILABLE ELSE NoUpdateResult(r.foundProfile)

\* The loop of a second call with the same manifest and current version,
\* on the object as the first call left it.
SecondCall == ConfigLoop(doc, CurrentVersion, 1, CVersion, FALSE)

\* C15: when a decision-only call has returned, the same manifest
\* evaluated again by the same object, with the identity, the current
\* version and the downgrade policy unchanged, gives the result the first
\* call gave, acts on the same entry and leaves the same version on record.
C15_SecondCallSameOutcome ==
    (pc = "returned" /\ Parsed /\ Action = DONT_DO_UPDATE) =>
        /\ Decision(SecondCall) = result
        /\ SecondCall.idx = entry
        /\ SecondCall.CVersion = GetVersion

\* The first call passed over an entry with version "2" and an entry with
\* version "3" for another device, answered NO_UPDATE_AVAILABLE and left
\* "3" on record.
C15_Witness ==
    /\ pc = "returned"
    /\ Parsed
    /\ Action = DONT_DO_UPDATE
    /\ result = NO_UPDATE_AVAILABLE
    /\ CurrentVersion = V20
    /\ Len(doc) = 2
    /\ doc[1].Version = V2
    /\ doc[2].Version = V3
    /\ ~SpecMatches(doc[2])
    /\ GetVersion = V3

\* ------------------------------------------------- the bytes written
\* C16: in a transfer whose total length is known, the bytes written to
\* the Update object never add up to more than the total length, whatever
\* the source makes available.
C16_WrittenAtMostTotal ==
    (Begun /\ totalLength >= 0) =>
        /\ offset <= totalLength
        /\ SumWritten(trace) <= totalLength

\* ------------------------------------------------- a begin that fails
BeginFailed == Happened("begin", 0, 0)

\* C17: when Update.begin() fails the call returns OTA_UPDATE_FAIL with
\* that as the last call made: nothing is read from the stream, nothing is
\* written or committed, the callback is not called and the device is not
\* restarted.
C17_BeginFailureAborts ==
    BeginFailed =>
        /\ pc = "returned"
        /\ result = OTA_UPDATE_FAIL
        /\ trace[Len(trace)] = Ev("begin", 0, 0)
        /\ Cardinality(Positions("begin")) = 1
        /\ \A op \in {"read", "write", "end", "callback", "restart"} :
              Positions(op) = {}
        /\ offset = 0

\* Update.begin() failed for a payload of a buffer and a byte, asked for
\* with UPDATE_AND_BOOT and a callback set.
C17_Witness ==
    /\ BeginFailed
    /\ pc = "returned"
    /\ result = OTA_UPDATE_FAIL
    /\ Action = UPDATE_AND_BOOT
    /\ Callback
    /\ totalLength = BuffSize + 1

\* ------------------------------------------------- polls that find nothing
\* C18: the loop yields after a poll that finds nothing available.  The
\* loop of DoOTAUpdate has no call that yields, so the claim asks that no
\* two polls in a row find nothing: emptyPolls, the count of such polls
\* made with no read and write between them, never passes one.
C18_YieldBetweenPolls ==
    pc = "stream" => emptyPolls <= 1

\* ------------------------------------------------- the end of the loop
\* The transfer has its outcome.
Outcome ==
    IF pc = "returned"
    THEN result \in {UPDATE_OK, WRITE_ERROR}
    ELSE pc = "restarted"

\* A step that leaves the read loop.
LeavesLoop == pc = "stream" /\ pc' # "stream"

\* C19: with the source handing over a chunk or disconnecting whenever the
\* loop waits for it, a transfer that has entered the read loop leaves it
\* and ends with an outcome: UPDATE_OK, the restart or WRITE_ERROR.  The
\* loop is left only with the connection lost, with offset no longer below
\* totalLength, or after a short write; a pass that finds nothing
\* available leaves offset and the connection as they are.
C19_TransferEnds ==
    /\ (pc = "stream") ~> Outcome
    /\ [][LeavesLoop =>
             \/ ~connected
             \/ offset >= totalLength
             \/ (pc' = "finish" /\ SomeShortWrite')]_vars
    /\ [][(pc = "stream" /\ emptyPolls' > emptyPolls) =>
             UNCHANGED <<pc, offset, connected, trace>>]_vars

\* The source handed over a part of the payload and closed the connection:
\* the transfer left the loop after waiting for more and returned
\* WRITE_ERROR.
C19_Witness ==
    /\ pc = "returned"
    /\ result = WRITE_ERROR
    /\ Begun
    /\ ~connected
    /\ ~SomeShortWrite
    /\ deliveries = 1
    /\ offset = BuffSize
    /\ totalLength = BuffSize + 1

\* ------------------------------------------------- what the result tells
DecisionCodes ==
    {UPDATE_AVAILABLE, NO_UPDATE_PROFILE_FOUND, NO_UPDATE_AVAILABLE, UPDATE_OK}

\* C20: the value returned after a fetch that did not answer 200, of the
\* manifest or of the payload, is none of UPDATE_AVAILABLE,
\* NO_UPDATE_PROFILE_FOUND, NO_UPDATE_AVAILABLE and UPDATE_OK.
C20_FailureIsNoDecisionCode ==
    (pc = "returned" /\ FetchFailed) => result \notin DecisionCodes
====
